---- MODULE Spec2Model ----
(***************************************************************************)
(* A model of the image version scraper (src/main.py).                     *)
(*                                                                         *)
(* Python strings are modelled as sequences of one-character strings, so   *)
(* that splitting, searching and integer parsing are computed character by *)
(* character as the code computes them.  Python's 0-based find/rfind       *)
(* results are modelled 1-based, with 0 standing for Python's -1.          *)
(*                                                                         *)
(* A character of Latin-1 is the one-character string itself; a character  *)
(* beyond Latin-1 is written by its code point, as in "U+0663".  The       *)
(* characters of the model are those of Latin-1, the decimal digits of     *)
(* every script and the white space of Unicode.                            *)
(***************************************************************************)
EXTENDS Integers, Sequences, FiniteSets, TLC

VARIABLES
    \* ---- ImageVersion(tag) and is_prerelease() on one tag
    vpc, tag, ver, prerelease,
    \* ---- comparison of two versions
    opc, va, vb, cmp,
    \* ---- extract_tag / strip_tag / parse_image_url on one reference
    ref, ext, stripped, parsed,
    \* ---- get_tags, one registry request per step
    gpc, url, requests, tags, served, answered,
    \* ---- the selection of newer versions among a registry's tags
    rpc, current, candidates, results,
    \* ---- main: the batch loop
    pc, image_urls, github_token, idx, any_newer_versions_found,
    exit_code, outcomes, error

verVars  == <<vpc, tag, ver, prerelease>>
ordVars  == <<opc, va, vb, cmp>>
refVars  == <<ref, ext, stripped, parsed>>
tagVars  == <<gpc, url, requests, tags, served, answered>>
resVars  == <<rpc, current, candidates, results>>
mainVars == <<pc, image_urls, github_token, idx,
              any_newer_versions_found, exit_code, outcomes, error>>
vars     == <<verVars, ordVars, refVars, tagVars, resVars, mainVars>>

(***************************************************************************)
(* Bounds of the model.                                                    *)
(***************************************************************************)
MaxTagLen == 5
MaxTokens == 3
MaxNum == 1
MaxRefLen == 6
MaxTags == 3
MaxRefs == 2
MaxCandidates == 3

\* range(100) in get_tags
PageLimit == 100

(***************************************************************************)
(* Characters and Python string primitives.                                *)
(***************************************************************************)
\* The decimal digits int() reads (Unicode category Nd), one row per script,
\* each row from the digit zero to the digit nine.
DecimalDigits ==
    <<<<"0", "1", "2", "3", "4", "5", "6", "7", "8", "9">>,
      <<"U+0660","U+0661","U+0662","U+0663","U+0664","U+0665","U+0666","U+0667","U+0668","U+0669">>,
      <<"U+06F0","U+06F1","U+06F2","U+06F3","U+06F4","U+06F5","U+06F6","U+06F7","U+06F8","U+06F9">>,
      <<"U+07C0","U+07C1","U+07C2","U+07C3","U+07C4","U+07C5","U+07C6","U+07C7","U+07C8","U+07C9">>,
      <<"U+0966","U+0967","U+0968","U+0969","U+096A","U+096B","U+096C","U+096D","U+096E","U+096F">>,
      <<"U+09E6","U+09E7","U+09E8","U+09E9","U+09EA","U+09EB","U+09EC","U+09ED","U+09EE","U+09EF">>,
      <<"U+0A66","U+0A67","U+0A68","U+0A69","U+0A6A","U+0A6B","U+0A6C","U+0A6D","U+0A6E","U+0A6F">>,
      <<"U+0AE6","U+0AE7","U+0AE8","U+0AE9","U+0AEA","U+0AEB","U+0AEC","U+0AED","U+0AEE","U+0AEF">>,
      <<"U+0B66","U+0B67","U+0B68","U+0B69","U+0B6A","U+0B6B","U+0B6C","U+0B6D","U+0B6E","U+0B6F">>,
      <<"U+0BE6","U+0BE7","U+0BE8","U+0BE9","U+0BEA","U+0BEB","U+0BEC","U+0BED","U+0BEE","U+0BEF">>,
      <<"U+0C66","U+0C67","U+0C68","U+0C69","U+0C6A","U+0C6B","U+0C6C","U+0C6D","U+0C6E","U+0C6F">>,
      <<"U+0CE6","U+0CE7","U+0CE8","U+0CE9","U+0CEA","U+0CEB","U+0CEC","U+0CED","U+0CEE","U+0CEF">>,
      <<"U+0D66","U+0D67","U+0D68","U+0D69","U+0D6A","U+0D6B","U+0D6C","U+0D6D","U+0D6E","U+0D6F">>,
      <<"U+0DE6","U+0DE7","U+0DE8","U+0DE9","U+0DEA","U+0DEB","U+0DEC","U+0DED","U+0DEE","U+0DEF">>,
      <<"U+0E50","U+0E51","U+0E52","U+0E53","U+0E54","U+0E55","U+0E56","U+0E57","U+0E58","U+0E59">>,
      <<"U+0ED0","U+0ED1","U+0ED2","U+0ED3","U+0ED4","U+0ED5","U+0ED6","U+0ED7","U+0ED8","U+0ED9">>,
      <<"U+0F20","U+0F21","U+0F22","U+0F23","U+0F24","U+0F25","U+0F26","U+0F27","U+0F28","U+0F29">>,
      <<"U+1040","U+1041","U+1042","U+1043","U+1044","U+1045","U+1046","U+1047","U+1048","U+1049">>,
      <<"U+1090","U+1091","U+1092","U+1093","U+1094","U+1095","U+1096","U+1097","U+1098","U+1099">>,
      <<"U+17E0","U+17E1","U+17E2","U+17E3","U+17E4","U+17E5","U+17E6","U+17E7","U+17E8","U+17E9">>,
      <<"U+1810","U+1811","U+1812","U+1813","U+1814","U+1815","U+1816","U+1817","U+1818","U+1819">>,
      <<"U+1946","U+1947","U+1948","U+1949","U+194A","U+194B","U+194C","U+194D","U+194E","U+194F">>,
      <<"U+19D0","U+19D1","U+19D2","U+19D3","U+19D4","U+19D5","U+19D6","U+19D7","U+19D8","U+19D9">>,
      <<"U+1A80","U+1A81","U+1A82","U+1A83","U+1A84","U+1A85","U+1A86","U+1A87","U+1A88","U+1A89">>,
      <<"U+1A90","U+1A91","U+1A92","U+1A93","U+1A94","U+1A95","U+1A96","U+1A97","U+1A98","U+1A99">>,
      <<"U+1B50","U+1B51","U+1B52","U+1B53","U+1B54","U+1B55","U+1B56","U+1B57","U+1B58","U+1B59">>,
      <<"U+1BB0","U+1BB1","U+1BB2","U+1BB3","U+1BB4","U+1BB5","U+1BB6","U+1BB7","U+1BB8","U+1BB9">>,
      <<"U+1C40","U+1C41","U+1C42","U+1C43","U+1C44","U+1C45","U+1C46","U+1C47","U+1C48","U+1C49">>,
      <<"U+1C50","U+1C51","U+1C52","U+1C53","U+1C54","U+1C55","U+1C56","U+1C57","U+1C58","U+1C59">>,
      <<"U+A620","U+A621","U+A622","U+A623","U+A624","U+A625","U+A626","U+A627","U+A628","U+A629">>,
      <<"U+A8D0","U+A8D1","U+A8D2","U+A8D3","U+A8D4","U+A8D5","U+A8D6","U+A8D7","U+A8D8","U+A8D9">>,
      <<"U+A900","U+A901","U+A902","U+A903","U+A904","U+A905","U+A906","U+A907","U+A908","U+A909">>,
      <<"U+A9D0","U+A9D1","U+A9D2","U+A9D3","U+A9D4","U+A9D5","U+A9D6","U+A9D7","U+A9D8","U+A9D9">>,
      <<"U+A9F0","U+A9F1","U+A9F2","U+A9F3","U+A9F4","U+A9F5","U+A9F6","U+A9F7","U+A9F8","U+A9F9">>,
      <<"U+AA50","U+AA51","U+AA52","U+AA53","U+AA54","U+AA55","U+AA56","U+AA57","U+AA58","U+AA59">>,
      <<"U+ABF0","U+ABF1","U+ABF2","U+ABF3","U+ABF4","U+ABF5","U+ABF6","U+ABF7","U+ABF8","U+ABF9">>,
      <<"U+FF10","U+FF11","U+FF12","U+FF13","U+FF14","U+FF15","U+FF16","U+FF17","U+FF18","U+FF19">>,
      <<"U+104A0","U+104A1","U+104A2","U+104A3","U+104A4","U+104A5","U+104A6","U+104A7","U+104A8","U+104A9">>,
      <<"U+10D30","U+10D31","U+10D32","U+10D33","U+10D34","U+10D35","U+10D36","U+10D37","U+10D38","U+10D39">>,
      <<"U+11066","U+11067","U+11068","U+11069","U+1106A","U+1106B","U+1106C","U+1106D","U+1106E","U+1106F">>,
      <<"U+110F0","U+110F1","U+110F2","U+110F3","U+110F4","U+110F5","U+110F6","U+110F7","U+110F8","U+110F9">>,
      <<"U+11136","U+11137","U+11138","U+11139","U+1113A","U+1113B","U+1113C","U+1113D","U+1113E","U+1113F">>,
      <<"U+111D0","U+111D1","U+111D2","U+111D3","U+111D4","U+111D5","U+111D6","U+111D7","U+111D8","U+111D9">>,
      <<"U+112F0","U+112F1","U+112F2","U+112F3","U+112F4","U+112F5","U+112F6","U+112F7","U+112F8","U+112F9">>,
      <<"U+11450","U+11451","U+11452","U+11453","U+11454","U+11455","U+11456","U+11457","U+11458","U+11459">>,
      <<"U+114D0","U+114D1","U+114D2","U+114D3","U+114D4","U+114D5","U+114D6","U+114D7","U+114D8","U+114D9">>,
      <<"U+11650","U+11651","U+11652","U+11653","U+11654","U+11655","U+11656","U+11657","U+11658","U+11659">>,
      <<"U+116C0","U+116C1","U+116C2","U+116C3","U+116C4","U+116C5","U+116C6","U+116C7","U+116C8","U+116C9">>,
      <<"U+11730","U+11731","U+11732","U+11733","U+11734","U+11735","U+11736","U+11737","U+11738","U+11739">>,
      <<"U+118E0","U+118E1","U+118E2","U+118E3","U+118E4","U+118E5","U+118E6","U+118E7","U+118E8","U+118E9">>,
      <<"U+11950","U+11951","U+11952","U+11953","U+11954","U+11955","U+11956","U+11957","U+11958","U+11959">>,
      <<"U+11C50","U+11C51","U+11C52","U+11C53","U+11C54","U+11C55","U+11C56","U+11C57","U+11C58","U+11C59">>,
      <<"U+11D50","U+11D51","U+11D52","U+11D53","U+11D54","U+11D55","U+11D56","U+11D57","U+11D58","U+11D59">>,
      <<"U+11DA0","U+11DA1","U+11DA2","U+11DA3","U+11DA4","U+11DA5","U+11DA6","U+11DA7","U+11DA8","U+11DA9">>,
      <<"U+16A60","U+16A61","U+16A62","U+16A63","U+16A64","U+16A65","U+16A66","U+16A67","U+16A68","U+16A69">>,
      <<"U+16AC0","U+16AC1","U+16AC2","U+16AC3","U+16AC4","U+16AC5","U+16AC6","U+16AC7","U+16AC8","U+16AC9">>,
      <<"U+16B50","U+16B51","U+16B52","U+16B53","U+16B54","U+16B55","U+16B56","U+16B57","U+16B58","U+16B59">>,
      <<"U+1D7CE","U+1D7CF","U+1D7D0","U+1D7D1","U+1D7D2","U+1D7D3","U+1D7D4","U+1D7D5","U+1D7D6","U+1D7D7">>,
      <<"U+1D7D8","U+1D7D9","U+1D7DA","U+1D7DB","U+1D7DC","U+1D7DD","U+1D7DE","U+1D7DF","U+1D7E0","U+1D7E1">>,
      <<"U+1D7E2","U+1D7E3","U+1D7E4","U+1D7E5","U+1D7E6","U+1D7E7","U+1D7E8","U+1D7E9","U+1D7EA","U+1D7EB">>,
      <<"U+1D7EC","U+1D7ED","U+1D7EE","U+1D7EF","U+1D7F0","U+1D7F1","U+1D7F2","U+1D7F3","U+1D7F4","U+1D7F5">>,
      <<"U+1D7F6","U+1D7F7","U+1D7F8","U+1D7F9","U+1D7FA","U+1D7FB","U+1D7FC","U+1D7FD","U+1D7FE","U+1D7FF">>,
      <<"U+1E140","U+1E141","U+1E142","U+1E143","U+1E144","U+1E145","U+1E146","U+1E147","U+1E148","U+1E149">>,
      <<"U+1E2F0","U+1E2F1","U+1E2F2","U+1E2F3","U+1E2F4","U+1E2F5","U+1E2F6","U+1E2F7","U+1E2F8","U+1E2F9">>,
      <<"U+1E950","U+1E951","U+1E952","U+1E953","U+1E954","U+1E955","U+1E956","U+1E957","U+1E958","U+1E959">>,
      <<"U+1FBF0","U+1FBF1","U+1FBF2","U+1FBF3","U+1FBF4","U+1FBF5","U+1FBF6","U+1FBF7","U+1FBF8","U+1FBF9">>>>

Digits == {DecimalDigits[r][k] : r \in DOMAIN DecimalDigits, k \in 1..10}
AsciiDigits == {DecimalDigits[1][k] : k \in 1..10}

Lower  == {"a", "b", "c", "d", "e", "f", "g", "h", "i", "j", "k", "l", "m",
           "n", "o", "p", "q", "r", "s", "t", "u", "v", "w", "x", "y", "z"}
Upper  == {"A", "B", "C", "D", "E", "F", "G", "H", "I", "J", "K", "L", "M",
           "N", "O", "P", "Q", "R", "S", "T", "U", "V", "W", "X", "Y", "Z"}

\* The characters of Latin-1 beyond ASCII that \w matches in a str pattern.
Latin1Word ==
    {"ª", "²", "³", "µ", "¹", "º", "¼", "½", "¾", "À", "Á", "Â", "Ã", "Ä",
     "Å", "Æ", "Ç", "È", "É", "Ê", "Ë", "Ì", "Í", "Î", "Ï", "Ð", "Ñ", "Ò",
     "Ó", "Ô", "Õ", "Ö", "Ø", "Ù", "Ú", "Û", "Ü", "Ý", "Þ", "ß", "à", "á",
     "â", "ã", "ä", "å", "æ", "ç", "è", "é", "ê", "ë", "ì", "í", "î", "ï",
     "ð", "ñ", "ò", "ó", "ô", "õ", "ö", "ø", "ù", "ú", "û", "ü", "ý", "þ",
     "ÿ"}

\* The white space int() skips around a literal.
Whitespace ==
    {"\t", "\n", "", "\f", "\r", " ", "", " ", "U+1680", "U+2000",
     "U+2001", "U+2002", "U+2003", "U+2004", "U+2005", "U+2006", "U+2007",
     "U+2008", "U+2009", "U+200A", "U+2028", "U+2029", "U+202F", "U+205F",
     "U+3000"}

\* the value of a decimal digit: its place in its row
DigitValues ==
    [c \in Digits |->
        (CHOOSE k \in 1..10 : \E r \in DOMAIN DecimalDigits : DecimalDigits[r][k] = c) - 1]

DigitVal(c) == DigitValues[c]

\* All sequences over alphabet A of length at most n.
StringsUpTo(A, n) == UNION {[1..k -> A] : k \in 0..n}

\* c in s
Contains(s, c) == \E i \in 1..Len(s) : s[i] = c

\* s.find(c): the first position of c, 0 when absent
Find(s, c) ==
    IF Contains(s, c)
    THEN CHOOSE i \in 1..Len(s) : s[i] = c /\ \A j \in 1..(i - 1) : s[j] # c
    ELSE 0

\* s.rfind(c): the last position of c, 0 when absent
RFind(s, c) ==
    IF Contains(s, c)
    THEN CHOOSE i \in 1..Len(s) : s[i] = c /\ \A j \in (i + 1)..Len(s) : s[j] # c
    ELSE 0

\* s.split(c): the pieces between the occurrences of c (always at least one)
RECURSIVE Split(_, _)
Split(s, c) ==
    LET i == Find(s, c)
    IN  IF i = 0 THEN <<s>>
        ELSE <<SubSeq(s, 1, i - 1)>> \o Split(SubSeq(s, i + 1, Len(s)), c)

\* s.split(c, 1): at most one split, at the first occurrence of c
SplitOnce(s, c) ==
    LET i == Find(s, c)
    IN  IF i = 0 THEN <<s>>
        ELSE <<SubSeq(s, 1, i - 1), SubSeq(s, i + 1, Len(s))>>

\* s.replace(c, '')
Remove(s, c) == SelectSeq(s, LAMBDA x : x # c)

\* c.join(parts)
RECURSIVE Join(_, _)
Join(parts, c) ==
    IF Len(parts) = 0 THEN <<>>
    ELSE IF Len(parts) = 1 THEN parts[1]
    ELSE parts[1] \o <<c>> \o Join(Tail(parts), c)

\* the literal without the white space around it
RECURSIVE LStrip(_)
LStrip(s) == IF Len(s) > 0 /\ s[1] \in Whitespace THEN LStrip(Tail(s)) ELSE s

RECURSIVE RStrip(_)
RStrip(s) ==
    IF Len(s) > 0 /\ s[Len(s)] \in Whitespace
    THEN RStrip(SubSeq(s, 1, Len(s) - 1)) ELSE s

Strip(s) == RStrip(LStrip(s))

\* The decimal value of a sequence of digits.
RECURSIVE DecValue(_)
DecValue(ds) ==
    IF Len(ds) = 0 THEN 0
    ELSE 10 * DecValue(SubSeq(ds, 1, Len(ds) - 1)) + DigitVal(ds[Len(ds)])

\* int(s): surrounding white space, an optional sign, then decimal digits
\* that single underscores may separate; the interpreter refuses a literal
\* of more than sys.get_int_max_str_digits() digits (4300 unless configured)
MaxStrDigits == 4300

IntSign(s) == IF Len(s) > 0 /\ s[1] \in {"+", "-"} THEN s[1] ELSE ""
IntBody(s) == IF IntSign(Strip(s)) = "" THEN Strip(s) ELSE Tail(Strip(s))

IntChars == Digits \cup {"_"}

IntOk(s) ==
    LET b == IntBody(s)
    IN  /\ Len(b) > 0
        /\ b[1] \in Digits
        /\ b[Len(b)] \in Digits
        /\ \A i \in 1..Len(b) : b[i] \in IntChars
        /\ \A i \in 1..(Len(b) - 1) : ~(b[i] = "_" /\ b[i + 1] = "_")
        /\ Len(SelectSeq(b, LAMBDA x : x # "_")) <= MaxStrDigits

IntValue(s) ==
    LET n == DecValue(Remove(IntBody(s), "_"))
    IN  IF IntSign(Strip(s)) = "-" THEN 0 - n ELSE n

(***************************************************************************)
(* class ImageVersion                                                      *)
(***************************************************************************)
\* The value of a construction that raised ValueError: no object exists.
Invalid(t) ==
    [ok |-> FALSE, original |-> t, has_variant |-> FALSE, variant |-> <<>>,
     major |-> 0, minor |-> 0, patch |-> 0]

\* parts[0].replace('v', ''), the other parts untouched
DropV_LeadingOnly(parts) ==
    [parts EXCEPT ![1] = IF Len(@) > 0 /\ @[1] = "v" THEN Tail(@) ELSE @]
DropV(parts) == [parts EXCEPT ![1] = Remove(@, "v")]

\* ImageVersion.__init__
ImageVersion(t) ==
    LET sp          == SplitOnce(t, "-")
        version_str == sp[1]
        has         == Contains(t, "-")
        parts       == Split(version_str, ".")
    IN  IF Len(parts) # 3 THEN Invalid(t)
        ELSE LET ps == DropV(parts)
             IN  IF \E i \in 1..3 : ~IntOk(ps[i]) THEN Invalid(t)
                 ELSE [ok |-> TRUE, original |-> t, has_variant |-> has,
                       variant |-> IF has THEN sp[2] ELSE <<>>,
                       major |-> IntValue(ps[1]), minor |-> IntValue(ps[2]),
                       patch |-> IntValue(ps[3])]

\* Python's comparison of two 3-tuples of ints: the first differing element decides.
TupleLt(x, y) ==
    \E i \in 1..3 : x[i] < y[i] /\ \A j \in 1..(i - 1) : x[j] = y[j]
TupleEq(x, y) == \A i \in 1..3 : x[i] = y[i]

Triple(v) == <<v.major, v.minor, v.patch>>

\* ImageVersion.__eq__
VersionEq(a, b) == TupleEq(Triple(a), Triple(b))

\* ImageVersion.__lt__
VersionLt_OrEqual(a, b) == TupleLt(Triple(a), Triple(b)) \/ TupleEq(Triple(a), Triple(b))
VersionLt(a, b) == TupleLt(Triple(a), Triple(b))

\* a > b: ImageVersion defines no __gt__, so Python evaluates the reflected b < a
VersionGt(a, b) == VersionLt(b, a)

\* \w of the regular expression
\* (a str pattern: the alphanumeric characters of Unicode and '_')
WordChars == Lower \cup Upper \cup Digits \cup Latin1Word \cup {"_"}

IsWordChar(c) == c \in WordChars

\* \b at offset p of s (between s[p] and s[p+1]; outside of s is no word character)
WordAt(s, p) == p >= 1 /\ p <= Len(s) /\ IsWordChar(s[p])
Boundary(s, p) == WordAt(s, p) # WordAt(s, p + 1)

Keywords ==
    {<<"a", "l", "p", "h", "a">>, <<"b", "e", "t", "a">>, <<"r", "c">>,
     <<"p", "r", "e">>, <<"n", "e", "x", "t">>, <<"c", "a", "n", "a", "r", "y">>}

\* the pattern \b(alpha|beta|rc|pre|next|canary)\b matched at offset p
MatchAt_NoTrailingBoundary(s, p) ==
    \E k \in Keywords :
        /\ Boundary(s, p)
        /\ p + Len(k) <= Len(s)
        /\ SubSeq(s, p + 1, p + Len(k)) = k
MatchAt(s, p) ==
    \E k \in Keywords :
        /\ Boundary(s, p)
        /\ p + Len(k) <= Len(s)
        /\ SubSeq(s, p + 1, p + Len(k)) = k
        /\ Boundary(s, p + Len(k))

\* re.search(pattern, s)
Search(s) == \E p \in 0..Len(s) : MatchAt(s, p)

\* ImageVersion.is_prerelease
IsPrerelease(v) ==
    IF ~v.has_variant \/ v.variant = <<>> THEN FALSE ELSE Search(v.variant)

(***************************************************************************)
(* Image references                                                        *)
(***************************************************************************)
default_registry ==
    <<"r", "e", "g", "i", "s", "t", "r", "y", "-", "1", ".", "d", "o", "c",
      "k", "e", "r", ".", "i", "o">>
library_prefix == <<"l", "i", "b", "r", "a", "r", "y", "/">>

\* extract_tag: the tag, or ValueError (ok = FALSE)
ExtractTag_AnyColon(image_url) ==
    LET last_colon == RFind(image_url, ":")
    IN  IF last_colon = 0
        THEN [ok |-> FALSE, tag |-> <<>>]
        ELSE [ok |-> TRUE,
              tag |-> SubSeq(image_url, last_colon + 1, Len(image_url))]
ExtractTag(image_url) ==
    LET last_colon == RFind(image_url, ":")
        last_slash == RFind(image_url, "/")
    IN  IF last_colon = 0 \/ last_colon < last_slash
        THEN [ok |-> FALSE, tag |-> <<>>]
        ELSE [ok |-> TRUE,
              tag |-> SubSeq(image_url, last_colon + 1, Len(image_url))]

\* strip_tag
StripTag(image_url) ==
    IF ~Contains(image_url, ":") THEN image_url
    ELSE LET last_colon_index == RFind(image_url, ":")
             slash_after_colon ==
                 Contains(SubSeq(image_url, last_colon_index, Len(image_url)), "/")
         IN  IF slash_after_colon THEN image_url
             ELSE SubSeq(image_url, 1, last_colon_index - 1)

\* parse_image_url
ParseImageUrl_DotOnly(image_url) ==
    LET image == StripTag(image_url)
    IN  IF ~Contains(image, "/")
        THEN [registry |-> default_registry, repo |-> library_prefix \o image]
        ELSE LET parts == Split(image, "/")
             IN  IF Contains(parts[1], ".")
                 THEN [registry |-> parts[1], repo |-> Join(Tail(parts), "/")]
                 ELSE [registry |-> default_registry, repo |-> image]
ParseImageUrl(image_url) ==
    LET image == StripTag(image_url)
    IN  IF ~Contains(image, "/")
        THEN [registry |-> default_registry, repo |-> library_prefix \o image]
        ELSE LET parts == Split(image, "/")
             IN  IF Contains(parts[1], ".") \/ Contains(parts[1], ":")
                 THEN [registry |-> parts[1], repo |-> Join(Tail(parts), "/")]
                 ELSE [registry |-> default_registry, repo |-> image]

(***************************************************************************)
(* Registry authentication                                                 *)
(***************************************************************************)
\* sub in s
HasSub(s, sub) ==
    \E i \in 0..(Len(s) - Len(sub)) : SubSeq(s, i + 1, i + Len(sub)) = sub

\* What the token endpoint answers: a token, a non-2xx status, or a body
\* without a token.
AuthAnswers == {"token", "http_error", "no_token"}

\* get_auth_token, given the endpoint's answer
GetAuthToken(answer) ==
    IF answer = "http_error" THEN [ok |-> FALSE, error |-> "HTTPError"]
    ELSE IF answer = "no_token" THEN [ok |-> FALSE, error |-> "Exception"]
    ELSE [ok |-> TRUE, error |-> ""]

\* get_ghcr_auth_headers
GetGhcrAuthHeaders(token) ==
    IF token = <<>> THEN [ok |-> FALSE, error |-> "ValueError"]
    ELSE [ok |-> TRUE, error |-> ""]

\* get_auth_headers
GetAuthHeaders(registry, token, answer) ==
    IF HasSub(registry, <<"p", "u", "b", "l", "i", "c", ".", "e", "c", "r", ".", "a", "w", "s">>)
    THEN GetAuthToken(answer)
    ELSE IF HasSub(registry, <<"d", "o", "c", "k", "e", "r">>)
    THEN GetAuthToken(answer)
    ELSE IF HasSub(registry, <<"g", "h", "c", "r">>)
    THEN GetGhcrAuthHeaders(token)
    ELSE [ok |-> TRUE, error |-> ""]

(***************************************************************************)
(* get_tags                                                                *)
(*                                                                         *)
(* A response is [ok, tags, next]: ok is a 2xx status, tags the body's     *)
(* 'tags' (empty when the key is missing, null or an empty list, which the *)
(* code treats alike), next the URL of the rel="next" link, 0 when the     *)
(* response has none.  URLs are numbered.                                  *)
(***************************************************************************)
GetTagsStart(u) ==
    [status |-> "running", url |-> u, requests |-> 0, tags |-> <<>>]

\* One pass of the loop body on the response to the request it sends.
GetTagsIter_NoLimit(g, resp) ==
    IF ~resp.ok
    THEN [g EXCEPT !.status = "raised", !.requests = @ + 1]
    ELSE [status   |-> IF resp.next = 0 THEN "returned" ELSE "running",
          url      |-> IF resp.next # 0 THEN resp.next ELSE g.url,
          requests |-> g.requests + 1,
          tags     |-> g.tags \o resp.tags]
GetTagsIter(g, resp) ==
    IF ~resp.ok
    THEN [g EXCEPT !.status = "raised", !.requests = @ + 1]
    ELSE [status   |-> IF resp.next = 0 \/ g.requests + 1 >= PageLimit
                       THEN "returned" ELSE "running",
          url      |-> IF resp.next # 0 THEN resp.next ELSE g.url,
          requests |-> g.requests + 1,
          tags     |-> g.tags \o resp.tags]

\* get_tags against a registry that answers each URL with a fixed response:
\* the state after at most n more passes of the loop (the passes are halved to
\* keep the evaluation shallow)
RECURSIVE GetTagsRun(_, _, _)
GetTagsRun(g, registry, n) ==
    IF n = 0 \/ g.status # "running" THEN g
    ELSE IF n = 1 THEN GetTagsIter(g, registry[g.url])
    ELSE LET half == GetTagsRun(g, registry, n \div 2)
         IN  GetTagsRun(half, registry, n - (n \div 2))

GetTags(registry) == GetTagsRun(GetTagsStart(1), registry, PageLimit)

(***************************************************************************)
(* main: the newer versions among a registry's tags                        *)
(***************************************************************************)
\* list.sort(): stable, by __lt__ alone
RECURSIVE Insert(_, _)
Insert(sorted, v) ==
    IF Len(sorted) = 0 THEN <<v>>
    ELSE IF VersionLt(v, sorted[Len(sorted)])
         THEN Insert(SubSeq(sorted, 1, Len(sorted) - 1), v) \o <<sorted[Len(sorted)]>>
         ELSE sorted \o <<v>>

RECURSIVE Sort(_)
Sort(vs) ==
    IF Len(vs) = 0 THEN <<>>
    ELSE Insert(Sort(SubSeq(vs, 1, Len(vs) - 1)), vs[Len(vs)])

\* the body of "for tag in tags": a tag is appended, or skipped
Keep_NotOlder(cur, t) ==
    LET version == ImageVersion(t)
    IN  version.ok /\ ~VersionLt(version, cur) /\ ~IsPrerelease(version)
Keep(cur, t) ==
    LET version == ImageVersion(t)
    IN  version.ok /\ VersionGt(version, cur) /\ ~IsPrerelease(version)

Collect(cur, ts) ==
    LET kept == SelectSeq(ts, LAMBDA t : Keep(cur, t))
    IN  [i \in 1..Len(kept) |-> ImageVersion(kept[i])]

\* results, as logged: collected in tag order, then sorted
Resolve(cur, ts) == Sort(Collect(cur, ts))

\* any_newer_versions_found after one reference's results
UpdateFound_Overwrite(found, res) == res # <<>>
UpdateFound(found, res) == IF res # <<>> THEN TRUE ELSE found

Originals(vs) == [i \in 1..Len(vs) |-> vs[i].original]

\* One pass of "for image_url in args.image_url", talking to a world w =
\* [auth, registry]: the token endpoint's answer and the registry's pages.
Raised(e) == [status |-> "raised", error |-> e, results |-> <<>>, requests |-> 0]

CheckOne(image_url, token, w) ==
    LET e == ExtractTag(image_url)
    IN  IF ~e.ok THEN Raised("ValueError")
        ELSE LET current_version == ImageVersion(e.tag)
             IN  IF ~current_version.ok THEN Raised("ValueError")
                 ELSE LET p == ParseImageUrl(image_url)
                          h == GetAuthHeaders(p.registry, token, w.auth)
                      IN  IF ~h.ok THEN Raised(h.error)
                          ELSE LET g == GetTags(w.registry)
                               IN  IF g.status = "raised"
                                   THEN [Raised("HTTPError") EXCEPT !.requests = g.requests]
                                   ELSE [status   |-> "ok",
                                         error    |-> "",
                                         results  |-> Originals(Resolve(current_version, g.tags)),
                                         requests |-> g.requests]

(***************************************************************************)
(* The state of each part when it is not the part being run.               *)
(***************************************************************************)
NoCmp    == [eq |-> FALSE, lt |-> FALSE, gt |-> FALSE]
NoExt    == [done |-> FALSE, ok |-> FALSE, tag |-> <<>>]
NoStrip  == [done |-> FALSE, image |-> <<>>]
NoParse  == [done |-> FALSE, registry |-> <<>>, repo |-> <<>>]
NoAnswer == [ok |-> FALSE, tags |-> <<>>, next |-> 0]

IdleVer  == vpc = "off" /\ tag = <<>> /\ ver = Invalid(<<>>) /\ prerelease = FALSE
IdleOrd  == opc = "off" /\ va = Invalid(<<>>) /\ vb = Invalid(<<>>) /\ cmp = NoCmp
IdleRef  == ref = <<>> /\ ext = NoExt /\ stripped = NoStrip /\ parsed = NoParse
IdleTags == /\ gpc = "off" /\ url = 0 /\ requests = 0 /\ tags = <<>>
            /\ served = <<>> /\ answered = NoAnswer
IdleRes  == /\ rpc = "off" /\ current = Invalid(<<>>) /\ candidates = <<>>
            /\ results = <<>>
IdleMain == /\ pc = "off" /\ image_urls = <<>> /\ github_token = <<>> /\ idx = 0
            /\ any_newer_versions_found = FALSE /\ exit_code = -1
            /\ outcomes = <<>> /\ error = ""

(***************************************************************************)
(* ImageVersion(tag), then is_prerelease(), on every tag of TagInputs.     *)
(***************************************************************************)
TagAlphabet == {"0", "1", "v", "a", ".", "-"}

VariantTokens ==
    Keywords \cup
    {<<"x">>, <<"1">>, <<".">>, <<"_">>, <<"-">>, <<"B", "e", "t", "a">>,
     <<"p", "a", "r", "e", "d">>, <<"é">>, <<"²">>}

\* the concatenations of at most n tokens
RECURSIVE TokenStrings(_)
TokenStrings(n) ==
    IF n = 0 THEN {<<>>}
    ELSE LET prev == TokenStrings(n - 1)
         IN  prev \cup {p \o t : p \in prev, t \in VariantTokens}

ExampleTags ==
    {<<"v", "1", ".", "2", ".", "3">>,
     <<"1", "v", ".", "2", ".", "3">>,
     <<"1", ".", "2">>,
     <<"a", "b", "c", ".", "d", "e", "f", ".", "g", "h", "i">>,
     <<"1", ".", "2", ".", "3">>,
     <<"1", "_", "0", ".", "2", ".", "3">>,
     <<"+", "1", ".", "2", ".", "3">>,
     <<" ", "1", ".", "2", ".", "3">>,
     <<"0", "1", ".", "2", ".", "3">>,
     <<"1", ".", "1", "0", ".", "0">>,
     <<"1", ".", "2", ".", "3", "-", "h", "o", "t", "f", "i", "x">>,
     <<"1", ".", "2", ".", "3", "-", "b", "e", "t", "a", ".", "1">>,
     <<"1", ".", "2", ".", "3", "-", "p", "r", "e", "p", "a", "r", "e", "d">>,
     <<"v", "v", "1", ".", "2", ".", "3">>,
     <<"1", ".", "v", "2", ".", "3">>,
     <<"1", ".", "2", ".", "3", ".", "4">>,
     <<"1", ".", "2", ".", "3", "\n">>,
     <<"\t", "1", ".", "2", ".", "3">>,
     <<"1", ".", "2", ".", "3", " ">>,
     <<"1", ".", "U+0663", ".", "0">>,
     <<"U+FF11", ".", "2", ".", "3">>,
     <<"1", ".", "2", ".", "3", "-", "é", "b", "e", "t", "a">>,
     <<"1", ".", "2", ".", "3", "-", "r", "c", "²">>,
     <<"é", "1", ".", "2", ".", "3">>,
     <<"1", ".", "2", ".", "3", "-", "", "b", "e", "t", "a">>}

\* a tag whose major part has one digit more than int() reads
LongTag == [i \in 1..(MaxStrDigits + 1) |-> "1"] \o <<".", "0", ".", "0">>

TagInputs ==
    StringsUpTo(TagAlphabet, MaxTagLen)
    \cup {<<"1", ".", "2", ".", "3", "-">> \o v : v \in TokenStrings(MaxTokens)}
    \cup ExampleTags \cup {LongTag}

InitVersion ==
    /\ tag \in TagInputs
    /\ vpc = "new" /\ ver = Invalid(<<>>) /\ prerelease = FALSE
    /\ IdleOrd /\ IdleRef /\ IdleTags /\ IdleRes /\ IdleMain

Construct ==
    /\ vpc = "new"
    /\ ver' = ImageVersion(tag)
    /\ vpc' = IF ImageVersion(tag).ok THEN "constructed" ELSE "raised"
    /\ UNCHANGED <<tag, prerelease, ordVars, refVars, tagVars, resVars, mainVars>>

Classify ==
    /\ vpc = "constructed"
    /\ prerelease' = IsPrerelease(ver)
    /\ vpc' = "classified"
    /\ UNCHANGED <<tag, ver, ordVars, refVars, tagVars, resVars, mainVars>>

NextVersion == Construct \/ Classify

SpecVersion == InitVersion /\ [][NextVersion]_vars

(***************************************************************************)
(* Comparison of two versions.                                             *)
(***************************************************************************)
DigitChar(n) == DecimalDigits[1][n + 1]

\* str(n) for n >= 0
RECURSIVE NatToStr(_)
NatToStr(n) ==
    IF n < 10 THEN <<DigitChar(n)>>
    ELSE NatToStr(n \div 10) \o <<DigitChar(n % 10)>>

Components == (0..MaxNum) \cup {10}

OrderVariants ==
    {<<>>, <<"-", "a", "l", "p", "h", "a">>, <<"-", "b", "e", "t", "a">>}

OrderTags ==
    {NatToStr(x) \o <<".">> \o NatToStr(y) \o <<".">> \o NatToStr(z) \o v :
        x \in Components, y \in Components, z \in Components, v \in OrderVariants}

InitOrder ==
    /\ opc = "new"
    /\ va \in {ImageVersion(t) : t \in OrderTags}
    /\ vb \in {ImageVersion(t) : t \in OrderTags}
    /\ cmp = NoCmp
    /\ IdleVer /\ IdleRef /\ IdleTags /\ IdleRes /\ IdleMain

\* a == b, a < b, a > b
Compare ==
    /\ opc = "new"
    /\ cmp' = [eq |-> VersionEq(va, vb), lt |-> VersionLt(va, vb),
               gt |-> VersionGt(va, vb)]
    /\ opc' = "compared"
    /\ UNCHANGED <<va, vb, verVars, refVars, tagVars, resVars, mainVars>>

NextOrder == Compare

SpecOrder == InitOrder /\ [][NextOrder]_vars

(***************************************************************************)
(* extract_tag, strip_tag and parse_image_url on every reference of        *)
(* RefInputs.                                                              *)
(***************************************************************************)
RefAlphabet == {"a", ".", ":", "/"}

ExampleRefs ==
    {<<"q", "u", "a", "y", ".", "i", "o", "/", "o", "r", "g", "/", "i", "m", "a", "g", "e", ":", "1", ".", "2", ".", "3">>,
     <<"l", "o", "c", "a", "l", "h", "o", "s", "t", ":", "5", "0", "0", "0", "/", "i", "m", "a", "g", "e">>,
     <<"l", "o", "c", "a", "l", "h", "o", "s", "t", ":", "5", "0", "0", "0", "/", "i", "m", "a", "g", "e", ":", "1", ".", "0">>,
     <<"n", "g", "i", "n", "x">>,
     <<"n", "g", "i", "n", "x", ":", "1", ".", "2", ".", "3">>,
     <<"o", "r", "g", "/", "i", "m", "a", "g", "e", ":", "1", ".", "2", ".", "3">>}

RefInputs == StringsUpTo(RefAlphabet, MaxRefLen) \cup ExampleRefs

InitRef ==
    /\ ref \in RefInputs
    /\ ext = NoExt /\ stripped = NoStrip /\ parsed = NoParse
    /\ IdleVer /\ IdleOrd /\ IdleTags /\ IdleRes /\ IdleMain

DoExtractTag ==
    /\ ~ext.done
    /\ ext' = [done |-> TRUE, ok |-> ExtractTag(ref).ok, tag |-> ExtractTag(ref).tag]
    /\ UNCHANGED <<ref, stripped, parsed, verVars, ordVars, tagVars, resVars, mainVars>>

DoStripTag ==
    /\ ~stripped.done
    /\ stripped' = [done |-> TRUE, image |-> StripTag(ref)]
    /\ UNCHANGED <<ref, ext, parsed, verVars, ordVars, tagVars, resVars, mainVars>>

DoParseImageUrl ==
    /\ ~parsed.done
    /\ parsed' = [done |-> TRUE, registry |-> ParseImageUrl(ref).registry,
                  repo |-> ParseImageUrl(ref).repo]
    /\ UNCHANGED <<ref, ext, stripped, verVars, ordVars, tagVars, resVars, mainVars>>

NextRef == DoExtractTag \/ DoStripTag \/ DoParseImageUrl

SpecRef == InitRef /\ [][NextRef]_vars

(***************************************************************************)
(* get_tags, one request per step, against a registry that may answer each *)
(* request with any response.                                              *)
(***************************************************************************)
Urls == {1, 2}

TagNames == {<<"a">>, <<"b">>}

Responses ==
    [ok : BOOLEAN, tags : StringsUpTo(TagNames, MaxTags), next : {0} \cup Urls]

InitTags ==
    /\ gpc = "idle" /\ url = 0 /\ requests = 0 /\ tags = <<>> /\ served = <<>>
    /\ answered = NoAnswer
    /\ IdleVer /\ IdleOrd /\ IdleRef /\ IdleRes /\ IdleMain

\* get_tags(url, headers) is called
GetTagsCall ==
    /\ gpc = "idle"
    /\ \E u \in Urls :
        LET g == GetTagsStart(u)
        IN  /\ gpc' = g.status /\ url' = g.url /\ requests' = g.requests
            /\ tags' = g.tags
    /\ UNCHANGED <<served, answered, verVars, ordVars, refVars, resVars, mainVars>>

\* requests.get(url, ...) is answered and the loop body runs on the answer
Request ==
    /\ gpc = "running"
    /\ requests <= PageLimit
    /\ \E resp \in Responses :
        /\ Len(tags) + Len(resp.tags) <= MaxTags
        /\ LET g == GetTagsIter([status |-> gpc, url |-> url,
                                 requests |-> requests, tags |-> tags], resp)
           IN  /\ gpc' = g.status /\ url' = g.url /\ requests' = g.requests
               /\ tags' = g.tags
        /\ served' = IF resp.ok THEN served \o resp.tags ELSE served
        /\ answered' = resp
    /\ UNCHANGED <<verVars, ordVars, refVars, resVars, mainVars>>

NextTags == GetTagsCall \/ Request

SpecTags == InitTags /\ [][NextTags]_vars

(***************************************************************************)
(* The selection of newer versions, on every current version of            *)
(* CurrentTags and every sequence of at most MaxCandidates raw tags.       *)
(***************************************************************************)
RawTags ==
    {<<"1", ".", "0", ".", "0">>,
     <<"1", ".", "0", ".", "1">>,
     <<"0", ".", "9", ".", "0">>,
     <<"1", ".", "1", ".", "0", "-", "r", "c">>,
     <<"l", "a", "t", "e", "s", "t">>,
     <<"2", ".", "0", ".", "0">>,
     <<"2", ".", "0", ".", "0", "-", "h", "o", "t", "f", "i", "x">>,
     <<"v", "1", ".", "5", ".", "0">>}

CurrentTags ==
    {<<"1", ".", "0", ".", "0">>,
     <<"1", ".", "1", ".", "0", "-", "x">>,
     <<"2", ".", "0", ".", "0">>}

\* the candidate lists of the specification's examples, and one of tags that
\* int() and \b read by the character classes of Unicode
ExampleCandidates ==
    {<<<<"1", ".", "0", ".", "1">>, <<"0", ".", "9", ".", "0">>, <<"1", ".", "1", ".", "0", "-", "r", "c">>, <<"l", "a", "t", "e", "s", "t">>, <<"2", ".", "0", ".", "0">>>>,
     <<<<"1", ".", "0", ".", "0">>, <<"1", ".", "1", ".", "0">>, <<"1", ".", "1", ".", "0", "-", "b", "e", "t", "a">>, <<"2", ".", "0", ".", "0">>>>,
     <<<<"1", ".", "2", ".", "0", "\n">>, <<"1", ".", "3", ".", "0", "-", "r", "c", "é">>, <<"1", ".", "U+0664", ".", "0">>, <<"1", ".", "5", ".", "0", "-", "r", "c", "\t">>>>}

InitResolve ==
    /\ rpc = "new"
    /\ current \in {ImageVersion(t) : t \in CurrentTags}
    /\ candidates \in StringsUpTo(RawTags, MaxCandidates) \cup ExampleCandidates
    /\ results = <<>>
    /\ IdleVer /\ IdleOrd /\ IdleRef /\ IdleTags /\ IdleMain

DoResolve ==
    /\ rpc = "new"
    /\ results' = Resolve(current, candidates)
    /\ rpc' = "resolved"
    /\ UNCHANGED <<current, candidates, verVars, ordVars, refVars, tagVars, mainVars>>

NextResolve == DoResolve

SpecResolve == InitResolve /\ [][NextResolve]_vars

(***************************************************************************)
(* main: the batch loop over args.image_url.                               *)
(***************************************************************************)
Refs ==
    {<<"a", ":", "1", ".", "0", ".", "0">>,
     <<"a", ":", "l", "a", "t", "e", "s", "t">>,
     <<"a">>,
     <<"g", "h", "c", "r", ".", "i", "o", "/", "a", ":", "1", ".", "0", ".", "0">>,
     <<"q", ".", "i", "o", "/", "a", ":", "1", ".", "0", ".", "0">>}

Page(ok, ts, next) == [ok |-> ok, tags |-> ts, next |-> next]

Registries ==
    {<<Page(TRUE, <<<<"1", ".", "0", ".", "0">>, <<"1", ".", "1", ".", "0">>, <<"1", ".", "1", ".", "0", "-", "b", "e", "t", "a">>, <<"2", ".", "0", ".", "0">>>>, 0), Page(FALSE, <<>>, 0)>>,
     <<Page(TRUE, <<<<"1", ".", "0", ".", "0">>, <<"l", "a", "t", "e", "s", "t">>, <<"0", ".", "9", ".", "0">>>>, 0), Page(FALSE, <<>>, 0)>>,
     <<Page(FALSE, <<>>, 0), Page(FALSE, <<>>, 0)>>,
     <<Page(TRUE, <<<<"2", ".", "0", ".", "0">>>>, 2), Page(TRUE, <<<<"1", ".", "0", ".", "1">>>>, 0)>>,
     <<Page(TRUE, <<<<"l", "a", "t", "e", "s", "t">>>>, 1), Page(FALSE, <<>>, 0)>>,
     <<Page(TRUE, <<<<"2", ".", "0", ".", "0">>>>, 2), Page(FALSE, <<>>, 0)>>}

Worlds ==
    [auth : {"token"}, registry : Registries]
    \cup [auth : {"http_error", "no_token"},
          registry : {<<Page(FALSE, <<>>, 0), Page(FALSE, <<>>, 0)>>}]

Batches == UNION {[1..n -> Refs] : n \in 1..MaxRefs}

Init ==
    /\ pc = "loop"
    /\ image_urls \in Batches
    /\ github_token \in {<<>>, <<"t">>}
    /\ idx = 1
    /\ any_newer_versions_found = FALSE
    /\ exit_code = -1
    /\ outcomes = <<>>
    /\ error = ""
    /\ IdleVer /\ IdleOrd /\ IdleRef /\ IdleTags /\ IdleRes

\* One pass of the batch loop.  An exception raised in it is caught nowhere:
\* the interpreter prints the traceback and the process ends with status 1.
CheckImage ==
    /\ pc = "loop"
    /\ idx <= Len(image_urls)
    /\ \E w \in Worlds :
        LET o == CheckOne(image_urls[idx], github_token, w)
        IN  /\ outcomes' = Append(outcomes, o)
            /\ IF o.status = "raised"
               THEN /\ pc' = "crashed"
                    /\ exit_code' = 1
                    /\ error' = o.error
                    /\ UNCHANGED <<idx, any_newer_versions_found>>
               ELSE /\ any_newer_versions_found' =
                           UpdateFound(any_newer_versions_found, o.results)
                    /\ idx' = idx + 1
                    /\ UNCHANGED <<pc, exit_code, error>>
    /\ UNCHANGED <<image_urls, github_token, verVars, ordVars, refVars, tagVars, resVars>>

\* sys.exit(1 if any_newer_versions_found else 0)
Exit ==
    /\ pc = "loop"
    /\ idx > Len(image_urls)
    /\ pc' = "exited"
    /\ exit_code' = IF any_newer_versions_found THEN 1 ELSE 0
    /\ UNCHANGED <<image_urls, github_token, idx, any_newer_versions_found,
                   outcomes, error, verVars, ordVars, refVars, tagVars, resVars>>

Next == CheckImage \/ Exit

Spec == Init /\ [][Next]_vars

(***************************************************************************)
(* Properties                                                              *)
(***************************************************************************)
Range(f) == {f[i] : i \in DOMAIN f}
Count(f, x) == Cardinality({i \in DOMAIN f : f[i] = x})
EndsWith(x, suf) ==
    Len(suf) <= Len(x) /\ SubSeq(x, Len(x) - Len(suf) + 1, Len(x)) = suf

\* the positions of c in x, and the last of them (0 when there is none)
Positions(x, c) == {i \in 1..Len(x) : x[i] = c}
LastPos(x, c) ==
    IF Positions(x, c) = {} THEN 0
    ELSE CHOOSE i \in Positions(x, c) : \A j \in Positions(x, c) : j <= i
FirstPos(x, c) ==
    IF Positions(x, c) = {} THEN 0
    ELSE CHOOSE i \in Positions(x, c) : \A j \in Positions(x, c) : i <= j

HasNewer(o) == o.status = "ok" /\ o.results # <<>>
SomeNewer == \E i \in 1..Len(outcomes) : HasNewer(outcomes[i])

\* C1: when main has processed every reference, it exits with 1 if and only
\* if some reference had a non-empty list of newer versions, and with 0
\* otherwise; the aggregate flag is set exactly when some reference
\* processed so far had newer versions, so a later reference without newer
\* versions never clears it.
C1_ExitCodeAggregates ==
    /\ any_newer_versions_found = SomeNewer
    /\ pc = "exited" =>
          /\ Len(outcomes) = Len(image_urls)
          /\ \A i \in 1..Len(outcomes) : outcomes[i].status = "ok"
          /\ exit_code = IF SomeNewer THEN 1 ELSE 0

C1_Witness ==
    /\ pc = "exited" /\ Len(image_urls) = 2 /\ exit_code = 1
    /\ outcomes[1].results = <<<<"1", ".", "1", ".", "0">>, <<"2", ".", "0", ".", "0">>>>
    /\ outcomes[2].status = "ok" /\ outcomes[2].results = <<>>

\* C2: when processing one reference fails, only that reference is aborted:
\* the run ends only after every reference of the batch has been processed.
C2_BatchContinues ==
    pc \in {"exited", "crashed"} => Len(outcomes) = Len(image_urls)

\* C3: the reported versions are exactly the candidates that parse, are
\* strictly greater than the current version by (major, minor, patch) and
\* are no prereleases, each as often as it was listed; unparsable candidates
\* are skipped and the rest still examined; the list is in ascending order
\* and empty when nothing qualifies.
Qualifies(t) ==
    LET v == ImageVersion(t)
    IN  /\ v.ok
        /\ \/ v.major > current.major
           \/ v.major = current.major /\ v.minor > current.minor
           \/ v.major = current.major /\ v.minor = current.minor
              /\ v.patch > current.patch
        /\ ~IsPrerelease(v)

C3_ReportedExactlyNewer ==
    rpc = "resolved" =>
        /\ \A i \in 1..Len(results) :
              /\ results[i].original \in Range(candidates)
              /\ results[i] = ImageVersion(results[i].original)
        /\ \A t \in Range(candidates) :
              Count(Originals(results), t) =
                  IF Qualifies(t) THEN Count(candidates, t) ELSE 0
        /\ \A i \in 1..Len(results) : \A j \in (i + 1)..Len(results) :
              ~TupleLt(Triple(results[j]), Triple(results[i]))
        /\ (\A t \in Range(candidates) : ~Qualifies(t)) => results = <<>>

C3_Witness ==
    /\ rpc = "resolved"
    /\ current.original = <<"1", ".", "0", ".", "0">>
    /\ candidates = <<<<"1", ".", "0", ".", "1">>, <<"0", ".", "9", ".", "0">>, <<"1", ".", "1", ".", "0", "-", "r", "c">>, <<"l", "a", "t", "e", "s", "t">>, <<"2", ".", "0", ".", "0">>>>
    /\ Originals(results) = <<<<"1", ".", "0", ".", "1">>, <<"2", ".", "0", ".", "0">>>>

\* C4: ImageVersion(tag) succeeds if and only if the part of the tag before
\* the first '-' has exactly three '.'-separated components, each an integer
\* (as int() reads it) once every 'v' is removed from the first one only; on
\* success the triple holds those integers, original is the tag verbatim and
\* variant is the text after the first '-' or absent; otherwise no version
\* is constructed.
HeadOf(t) == IF FirstPos(t, "-") = 0 THEN t ELSE SubSeq(t, 1, FirstPos(t, "-") - 1)

Component(t, k) ==
    LET h  == HeadOf(t)
        d1 == FirstPos(h, ".")
        d2 == LastPos(h, ".")
        c  == IF k = 1 THEN SubSeq(h, 1, d1 - 1)
              ELSE IF k = 2 THEN SubSeq(h, d1 + 1, d2 - 1)
              ELSE SubSeq(h, d2 + 1, Len(h))
    IN  IF k = 1 THEN SelectSeq(c, LAMBDA x : x # "v") ELSE c

WellFormed(t) ==
    /\ Cardinality(Positions(HeadOf(t), ".")) = 2
    /\ \A k \in 1..3 : IntOk(Component(t, k))

\* a run of decimal digits without its leading zeros (one digit at least)
RECURSIVE NoLeadingZeros(_)
NoLeadingZeros(ds) ==
    IF Len(ds) > 1 /\ ds[1] = "0" THEN NoLeadingZeros(Tail(ds)) ELSE ds

PlainDigits(c) == Len(c) > 0 /\ \A i \in 1..Len(c) : c[i] \in AsciiDigits

RoundTrips(c, n) == PlainDigits(c) => (n >= 0 /\ NatToStr(n) = NoLeadingZeros(c))

C4_ConstructionAllOrNothing ==
    vpc # "new" =>
        /\ ver.ok = WellFormed(tag)
        /\ (vpc = "raised") = ~ver.ok
        /\ ver.ok =>
              /\ ver.original = tag
              /\ ver.major >= 0 /\ ver.minor >= 0 /\ ver.patch >= 0
              /\ RoundTrips(Component(tag, 1), ver.major)
              /\ RoundTrips(Component(tag, 2), ver.minor)
              /\ RoundTrips(Component(tag, 3), ver.patch)
              /\ ver.has_variant = (FirstPos(tag, "-") # 0)
              /\ ver.has_variant => tag = HeadOf(tag) \o <<"-">> \o ver.variant
              /\ ~ver.has_variant => ver.variant = <<>>
        /\ tag \in {<<"v", "1", ".", "2", ".", "3">>, <<"1", "v", ".", "2", ".", "3">>} => ver.ok /\ ver.major = 1
        /\ tag \in {<<"1", ".", "2">>, <<"a", "b", "c", ".", "d", "e", "f", ".", "g", "h", "i">>} => ~ver.ok

C4_Witness ==
    /\ vpc = "constructed" /\ tag = <<"1", "v", ".", "2", ".", "3">>
    /\ ver.major = 1 /\ ver.minor = 2 /\ ver.patch = 3 /\ ~ver.has_variant

\* C5: equality and ordering of versions depend only on (major, minor,
\* patch): exactly one of a < b, a == b, a > b holds, the order is the
\* lexicographic order of the triples, and versions with the same triple
\* and different variants are equal, neither greater than the other.
RankBase == MaxNum + 11
Rank(v) == (v.major * RankBase + v.minor) * RankBase + v.patch

C5_TotalOrderOnTriples ==
    opc = "compared" =>
        /\ Cardinality({k \in {"lt", "eq", "gt"} : cmp[k]}) = 1
        /\ cmp.lt = (Rank(va) < Rank(vb))
        /\ cmp.eq = (Rank(va) = Rank(vb))
        /\ cmp.gt = (Rank(va) > Rank(vb))
        /\ Triple(va) = Triple(vb) => cmp.eq /\ ~cmp.lt /\ ~cmp.gt

C5_Witness ==
    /\ opc = "compared"
    /\ va.original = <<"1", ".", "1", ".", "0", "-", "a", "l", "p", "h", "a">>
    /\ vb.original = <<"1", ".", "1", ".", "0", "-", "b", "e", "t", "a">>
    /\ cmp.eq /\ ~cmp.lt /\ ~cmp.gt

\* C6: is_prerelease is false for a version without a variant; with a
\* variant it is true if and only if the variant contains one of alpha,
\* beta, rc, pre, next, canary as a whole word, case-sensitively.
WholeWord(x) ==
    \E i \in 1..Len(x) : \E j \in i..Len(x) :
        /\ SubSeq(x, i, j) \in Keywords
        /\ i = 1 \/ ~IsWordChar(x[i - 1])
        /\ j = Len(x) \/ ~IsWordChar(x[j + 1])

C6_PrereleaseWholeWord ==
    vpc = "classified" =>
        /\ prerelease = (ver.has_variant /\ WholeWord(ver.variant))
        /\ ver.variant = <<"b", "e", "t", "a", ".", "1">> /\ ver.has_variant => prerelease
        /\ ver.variant \in {<<"h", "o", "t", "f", "i", "x">>, <<"p", "r", "e", "p", "a", "r", "e", "d">>} => ~prerelease

C6_Witness ==
    /\ vpc = "classified" /\ ver.has_variant
    /\ ver.variant = <<"p", "r", "e", "p", "a", "r", "e", "d">>
    /\ ~prerelease

\* C7: a tag is recognised if and only if the last ':' comes after the last
\* '/': extract_tag then returns the text after the last ':' and strip_tag
\* the text before it, so the reference is strip_tag + ':' + extract_tag;
\* otherwise extract_tag raises and strip_tag returns the reference as is.
TagRecognised(x) == LastPos(x, ":") # 0 /\ LastPos(x, ":") > LastPos(x, "/")

C7_TagIffColonAfterSlash ==
    /\ ext.done =>
          /\ ext.ok = TagRecognised(ref)
          /\ ext.ok => ext.tag = SubSeq(ref, LastPos(ref, ":") + 1, Len(ref))
    /\ stripped.done =>
          stripped.image = IF TagRecognised(ref)
                           THEN SubSeq(ref, 1, LastPos(ref, ":") - 1)
                           ELSE ref
    /\ ext.done /\ ext.ok /\ stripped.done =>
          ref = stripped.image \o <<":">> \o ext.tag

C7_Witness ==
    /\ ext.done /\ stripped.done
    /\ ref = <<"l", "o", "c", "a", "l", "h", "o", "s", "t", ":", "5", "0", "0", "0", "/", "i", "m", "a", "g", "e", ":", "1", ".", "0">>
    /\ ext.ok /\ ext.tag = <<"1", ".", "0">>
    /\ stripped.image = <<"l", "o", "c", "a", "l", "h", "o", "s", "t", ":", "5", "0", "0", "0", "/", "i", "m", "a", "g", "e">>

\* C8: parse_image_url maps the tag-stripped image to (registry, repository):
\* without '/', the default registry and 'library/<image>'; otherwise, if the
\* first segment contains '.' or ':', that segment and the rest after it;
\* otherwise the default registry and the whole image.
Bare(x) == IF TagRecognised(x) THEN SubSeq(x, 1, LastPos(x, ":") - 1) ELSE x

C8_RegistryAndRepository ==
    parsed.done =>
        LET image == Bare(ref)
            cut   == FirstPos(image, "/")
            first == SubSeq(image, 1, cut - 1)
            rest  == SubSeq(image, cut + 1, Len(image))
        IN  /\ cut = 0 =>
                  /\ parsed.registry = default_registry
                  /\ parsed.repo = library_prefix \o image
            /\ cut # 0 /\ (Positions(first, ".") \cup Positions(first, ":")) # {} =>
                  parsed.registry = first /\ parsed.repo = rest
            /\ cut # 0 /\ (Positions(first, ".") \cup Positions(first, ":")) = {} =>
                  parsed.registry = default_registry /\ parsed.repo = image
            /\ ref = <<"q", "u", "a", "y", ".", "i", "o", "/", "o", "r", "g", "/", "i", "m", "a", "g", "e", ":", "1", ".", "2", ".", "3">> =>
                  /\ parsed.registry = <<"q", "u", "a", "y", ".", "i", "o">>
                  /\ parsed.repo = <<"o", "r", "g", "/", "i", "m", "a", "g", "e">>

C8_Witness ==
    /\ parsed.done /\ ref = <<"l", "o", "c", "a", "l", "h", "o", "s", "t", ":", "5", "0", "0", "0", "/", "i", "m", "a", "g", "e", ":", "1", ".", "0">>
    /\ parsed.registry = <<"l", "o", "c", "a", "l", "h", "o", "s", "t", ":", "5", "0", "0", "0">>
    /\ parsed.repo = <<"i", "m", "a", "g", "e">>

\* C9: for every reference that extract_tag accepts, the repository path of
\* parse_image_url is non-empty with a non-empty image name, does not keep
\* the ':tag' suffix, and is the reference without its registry host segment
\* and tag.
C9_RepositoryNonEmpty ==
    ext.done /\ ext.ok /\ parsed.done =>
        /\ parsed.repo # <<>>
        /\ parsed.repo # library_prefix
        /\ parsed.repo[Len(parsed.repo)] # "/"
        /\ ~EndsWith(parsed.repo, <<":">> \o ext.tag)

\* C10: get_tags sends at most 100 requests and is then over: it runs on
\* only while every answer was 2xx with a next link, returns the tags of the
\* pages in page order at the first page without a next link or after the
\* 100th request, and a non-2xx answer raises, with no further request.
C10_GetTagsTerminates ==
    /\ requests <= PageLimit
    /\ gpc = "running" =>
          /\ requests < PageLimit
          /\ requests > 0 => answered.ok /\ answered.next # 0
    /\ gpc = "returned" =>
          /\ tags = served
          /\ answered.ok
          /\ answered.next = 0 \/ requests = PageLimit
    /\ gpc = "raised" => ~answered.ok
    /\ gpc \in {"returned", "raised"} => ~ENABLED Request

C10_Witness ==
    /\ gpc = "returned" /\ requests = PageLimit
    /\ answered.next # 0 /\ Len(tags) = MaxTags

====
